---- MODULE Spec2Model ----
(***************************************************************************)
(* A model of the normalization pipeline of tiktok-comments-scraper:       *)
(*   extractors/user_extractor.py  normalize_avatar_urls, build_user_block *)
(*   outputs/formatter.py          format_comment_record,                  *)
(*                                 build_share_url_fallback                *)
(*   main.py                       the per-URL processing loop of main     *)
(*   extractors/comments_parser.py CommentsClient.fetch_comments and its   *)
(*                                 three strategies                        *)
(*                                                                         *)
(* Python values are tagged records [t |-> tag, v |-> payload]:            *)
(*   none, bool, int, float (payload: its decimal text), str (payload: a   *)
(*   sequence of characters), list (payload: a sequence of values), dict   *)
(*   (payload: a function from the keys that are present to values).       *)
(* A call that raises yields the pseudo-value [t |-> "raise", v |-> name]. *)
(* A character is a one-element token; " " is whitespace, "0".."9" are the *)
(* decimal digits and "sup2" stands for U+00B2 SUPERSCRIPT TWO, a          *)
(* character for which str.isdigit() is true and int() raises ValueError.  *)
(***************************************************************************)
EXTENDS Integers, Sequences, FiniteSets, TLC

VARIABLES
    pc,          \* position of the driver of the pure functions / of main
    fn,          \* the function under call: its source name
    arg,         \* its first argument (a raw comment or a raw user)
    source_url,  \* format_comment_record's second argument
    result,      \* what the call returned (or raised)
    result2,     \* what the same function returns when fed its own result
    start_urls,  \* main: the video URLs, unique and in order
    url_idx,     \* main: how many URLs the for loop has taken
    comments,    \* main: the raw items of the URL being processed
    idx,         \* main: how many items the comprehension has consumed
    valid_records, \* main: the list the comprehension is building
    exported,    \* main: per URL taken, the rows handed to exporter.write_many
    failed,      \* main: the URLs (by position) whose try block ended in except
    total_written, \* main: the count of rows written
    max_items,   \* main: --max-items, else the max_items setting
    url_aweme_id, \* fetch_comments: what parse_aweme_id_from_url gave
    attempt,     \* fetch_comments: the attempt the running strategy is at
    attempted,   \* fetch_comments: the strategies run so far, each with
                 \* what it yielded (or raised) once its retries ended
    live         \* fetch_comments: what the call returned

vars == <<pc, fn, arg, source_url, result, result2, start_urls, url_idx,
          comments, idx, valid_records, exported, failed, total_written,
          max_items, url_aweme_id, attempt, attempted, live>>

----------------------------------------------------------------------------
(* Python values *)

PyNone == [t |-> "none", v |-> 0]
PyBool(b) == [t |-> "bool", v |-> b]
PyInt(n) == [t |-> "int", v |-> n]
PyFloat(s) == [t |-> "float", v |-> s]
PyStr(s) == [t |-> "str", v |-> s]
PyList(xs) == [t |-> "list", v |-> xs]
PyDict(f) == [t |-> "dict", v |-> f]
Raised(e) == [t |-> "raise", v |-> e]

EmptyMap == [k \in {} |-> PyNone]
EmptyDict == PyDict(EmptyMap)
EmptyList == PyList(<<>>)
EmptyStr == PyStr(<<>>)

IsDict(x) == x.t = "dict"
IsStr(x) == x.t = "str"
IsRaised(x) == x.t = "raise"

\* bool(x): Python truthiness
Truthy(x) ==
    CASE x.t = "none" -> FALSE
      [] x.t = "bool" -> x.v
      [] x.t = "int" -> x.v # 0
      [] x.t = "float" -> x.v # <<"0", ".", "0">>
      [] x.t = "str" -> Len(x.v) > 0
      [] x.t = "list" -> Len(x.v) > 0
      [] x.t = "dict" -> DOMAIN x.v # {}
      [] OTHER -> FALSE

\* d.get(k): the value at k, None when k is absent
DictGet(d, k) == IF k \in DOMAIN d.v THEN d.v[k] ELSE PyNone

\* d.get(k, dflt)
DictGetDefault(d, k, dflt) == IF k \in DOMAIN d.v THEN d.v[k] ELSE dflt

\* a or b
OrElse(a, b) == IF Truthy(a) THEN a ELSE b

\* a chain written in the opposite order: the last non-empty candidate wins
RECURSIVE LastTruthy(_, _, _)
LastTruthy(d, keys, dflt) ==
    IF keys = <<>> THEN dflt
    ELSE OrElse(DictGet(d, keys[Len(keys)]),
                LastTruthy(d, SubSeq(keys, 1, Len(keys) - 1), dflt))

\* d.get(k1) or d.get(k2) or ... or dflt
RECURSIVE FirstTruthy(_, _, _)
FirstTruthy(d, keys, dflt) ==
    IF keys = <<>> THEN dflt
    ELSE OrElse(DictGet(d, Head(keys)), FirstTruthy(d, Tail(keys), dflt))

----------------------------------------------------------------------------
(* Strings *)

Whitespace == {" "}
DecimalDigits == {"0", "1", "2", "3", "4", "5", "6", "7", "8", "9"}
\* characters c with c.isdigit(): the decimals and the superscript digit
IsDigitChars == DecimalDigits \cup {"sup2"}

DigitValue(c) ==
    CASE c = "0" -> 0 [] c = "1" -> 1 [] c = "2" -> 2 [] c = "3" -> 3
      [] c = "4" -> 4 [] c = "5" -> 5 [] c = "6" -> 6 [] c = "7" -> 7
      [] c = "8" -> 8 [] c = "9" -> 9

DigitChar(n) == <<"0", "1", "2", "3", "4", "5", "6", "7", "8", "9">>[n + 1]

RECURSIVE LStrip(_)
LStrip(s) == IF s # <<>> /\ Head(s) \in Whitespace THEN LStrip(Tail(s)) ELSE s

RECURSIVE RStrip(_)
RStrip(s) ==
    IF s # <<>> /\ s[Len(s)] \in Whitespace
    THEN RStrip(SubSeq(s, 1, Len(s) - 1)) ELSE s

\* s.strip()
Strip(s) == RStrip(LStrip(s))

\* s.isdigit(): non-empty, every character a digit character
IsDigit(s) == s # <<>> /\ \A i \in 1..Len(s) : s[i] \in IsDigitChars

RECURSIVE NatToStr(_)
NatToStr(n) ==
    IF n < 10 THEN <<DigitChar(n)>>
    ELSE NatToStr(n \div 10) \o <<DigitChar(n % 10)>>

IntToStr(n) == IF n < 0 THEN <<"-">> \o NatToStr(-n) ELSE NatToStr(n)

RECURSIVE DecimalValue(_)
DecimalValue(s) ==
    IF s = <<>> THEN 0
    ELSE 10 * DecimalValue(SubSeq(s, 1, Len(s) - 1)) + DigitValue(s[Len(s)])

RECURSIVE JoinComma(_)
JoinComma(parts) ==
    IF parts = <<>> THEN <<>>
    ELSE IF Len(parts) = 1 THEN parts[1]
    ELSE parts[1] \o <<",", " ">> \o JoinComma(Tail(parts))

\* repr(x) of a scalar, and of a list of scalars
ReprScalar(x) ==
    CASE x.t = "none" -> <<"N", "o", "n", "e">>
      [] x.t = "bool" -> IF x.v THEN <<"T", "r", "u", "e">>
                         ELSE <<"F", "a", "l", "s", "e">>
      [] x.t = "int" -> IntToStr(x.v)
      [] x.t = "float" -> x.v
      [] x.t = "str" -> <<"'">> \o x.v \o <<"'">>
      [] OTHER -> <<"?">>

\* str(x), which is also what an f-string field {x} formats
StrOf(x) ==
    CASE x.t = "str" -> x.v
      [] x.t = "list" ->
            <<"[">> \o JoinComma([i \in 1..Len(x.v) |-> ReprScalar(x.v[i])])
                    \o <<"]">>
      [] OTHER -> ReprScalar(x)

----------------------------------------------------------------------------
(* extractors/user_extractor.py *)

NICKNAME_KEYS == <<"nickname", "nicknameName", "display_name", "displayName">>
UNIQUE_ID_KEYS == <<"unique_id", "uniqueId", "username", "uid">>

\* try: urls = user.get(outer, {}).get(inner) or []   except Exception: pass
\* (.get on a value that is no dict raises AttributeError, which leaves urls [])
ThumbUrlList(user, outer, inner) ==
    LET thumb == DictGetDefault(user, outer, EmptyDict)
    IN  IF IsDict(thumb) THEN OrElse(DictGet(thumb, inner), EmptyList)
        ELSE EmptyList

\* single = user.get("avatar") or user.get("avatarUrl");
\* if isinstance(single, str) and single.strip(): urls = [single.strip()]
DirectAvatar(user) ==
    LET single == OrElse(DictGet(user, "avatar"), DictGet(user, "avatarUrl"))
    IN  IF IsStr(single) /\ Strip(single.v) # <<>>
        THEN PyList(<<PyStr(Strip(single.v))>>)
        ELSE EmptyList

\* the urls the three shapes leave, before the final comprehension
SelectAvatarCandidate(user) ==
    LET snake == ThumbUrlList(user, "avatar_thumb", "url_list")
        camel == ThumbUrlList(user, "avatarThumb", "urlList")
    IN  IF Truthy(snake) THEN snake
        ELSE IF Truthy(camel) THEN camel
        ELSE DirectAvatar(user)

\* the condition of the final comprehension: isinstance(u, str) and u.strip()
KeepUrl(u) == IsStr(u) /\ Strip(u.v) # <<>>

\* [u for u in urls if isinstance(u, str) and u.strip()]
\* iterating a list gives its elements, a str its characters; a bool, an int
\* or a float is not iterable (TypeError). A non-empty dict would give its
\* keys: the inputs below hold no dict as a url list.
FilterUrls(urls) ==
    CASE urls.t = "list" -> PyList(SelectSeq(urls.v, KeepUrl))
      [] urls.t = "str" ->
            PyList(SelectSeq([i \in 1..Len(urls.v) |-> PyStr(<<urls.v[i]>>)],
                             KeepUrl))
      [] OTHER -> Raised("TypeError")

normalize_avatar_urls(user) ==
    IF ~IsDict(user) THEN EmptyList
    ELSE FilterUrls(SelectAvatarCandidate(user))

\* a block that nests the list under the camelCase inner key
UserBlockCamelInner(nickname, unique_id, urls) ==
    PyDict([nickname |-> nickname,
            unique_id |-> unique_id,
            avatar_thumb |-> PyDict([urlList |-> urls])])

UserBlock(nickname, unique_id, urls) ==
    PyDict([nickname |-> nickname,
            unique_id |-> unique_id,
            avatar_thumb |-> PyDict([url_list |-> urls])])

\* user.get(...) on a value that is no dict raises AttributeError
build_user_block(user) ==
    IF ~IsDict(user) THEN Raised("AttributeError")
    ELSE LET nickname == FirstTruthy(user, NICKNAME_KEYS, EmptyStr)
             unique_id == FirstTruthy(user, UNIQUE_ID_KEYS, EmptyStr)
             urls == normalize_avatar_urls(user)
         IN  IF IsRaised(urls) THEN urls
             ELSE UserBlock(nickname, unique_id, urls)

----------------------------------------------------------------------------
(* outputs/formatter.py *)

AUTHOR_PIN_KEYS == <<"author_pin", "isPinned", "pinned">>
AWEME_ID_KEYS == <<"aweme_id", "awemeId", "video_id", "videoId">>
CID_KEYS == <<"cid", "comment_id", "id">>
LANG_KEYS == <<"comment_language", "lang", "language">>
CREATE_TIME_KEYS == <<"create_time", "createTime", "timestamp">>
DIGG_KEYS == <<"digg_count", "like_count", "likes">>
REPLIES_KEYS == <<"reply_comment_total", "reply_count", "replies">>
TEXT_KEYS == <<"text", "comment", "content">>
USER_KEYS == <<"user", "author">>

\* f"https://m.tiktok.com/v/{aweme_id}.html?share_comment_id={cid}"
\* (the two literal fragments are kept as one token each)
DeepLink(aweme_id, cid) ==
    PyStr(<<"https://m.tiktok.com/v/">> \o StrOf(aweme_id)
          \o <<".html?share_comment_id=">> \o StrOf(cid))

\* a fallback that prefers the source URL to the deep link
SourceUrlFirstFallback(aweme_id, cid, url) ==
    IF Truthy(url) THEN url
    ELSE IF Truthy(aweme_id) /\ Truthy(cid) THEN DeepLink(aweme_id, cid)
    ELSE EmptyStr

build_share_url_fallback(aweme_id, cid, url) ==
    IF Truthy(aweme_id) /\ Truthy(cid) THEN DeepLink(aweme_id, cid)
    ELSE OrElse(url, EmptyStr)

\* str(x) if x else ""
StrOrEmpty(x) == IF Truthy(x) THEN PyStr(StrOf(x)) ELSE EmptyStr

\* int(x) for an x with str(x).isdigit(): an int is itself, a str is parsed,
\* and a digit character that is no decimal makes int() raise ValueError
IntOf(x) ==
    IF x.t = "int" THEN PyInt(x.v)
    ELSE IF \A i \in 1..Len(x.v) : x.v[i] \in DecimalDigits
         THEN PyInt(DecimalValue(x.v))
         ELSE Raised("ValueError")

\* int(x) if isinstance(x, (int, float, str)) and str(x).isdigit() else 0
\* (a bool is an int to isinstance; its str is "True" or "False")
CoerceInt(x) ==
    IF x.t \in {"bool", "int", "float", "str"} /\ IsDigit(StrOf(x))
    THEN IntOf(x) ELSE PyInt(0)

\* share_info = raw.get("share_info") or {};
\* share_url = share_info.get("url") or "" if it is a dict, else ""
ShareUrlOf(raw) ==
    LET share_info == OrElse(DictGet(raw, "share_info"), EmptyDict)
    IN  IF IsDict(share_info) THEN OrElse(DictGet(share_info, "url"), EmptyStr)
        ELSE EmptyStr

\* the first of the values that raised, in the order Python evaluates them
FirstRaised(xs) ==
    LET hits == SelectSeq(xs, IsRaised) IN
    IF hits = <<>> THEN PyNone ELSE Head(hits)

format_comment_record(raw, url) ==
    IF ~IsDict(raw) THEN Raised("AttributeError")
    ELSE
    LET author_pin == OrElse(DictGet(raw, "author_pin"),
                        OrElse(DictGet(raw, "isPinned"), DictGet(raw, "pinned")))
        aweme_id == FirstTruthy(raw, AWEME_ID_KEYS, EmptyStr)
        cid == FirstTruthy(raw, CID_KEYS, EmptyStr)
        lang == FirstTruthy(raw, LANG_KEYS, EmptyStr)
        create_time == FirstTruthy(raw, CREATE_TIME_KEYS, PyInt(0))
        digg == FirstTruthy(raw, DIGG_KEYS, PyInt(0))
        replies == FirstTruthy(raw, REPLIES_KEYS, PyInt(0))
        text == FirstTruthy(raw, TEXT_KEYS, EmptyStr)
        user_block == build_user_block(FirstTruthy(raw, USER_KEYS, EmptyDict))
        share_url == ShareUrlOf(raw)
        ct == CoerceInt(create_time)
        dc == CoerceInt(digg)
        rc == CoerceInt(replies)
        bad == FirstRaised(<<user_block, ct, dc, rc>>)
    IN  IF IsRaised(bad) THEN bad
        ELSE PyDict([author_pin |-> PyBool(Truthy(author_pin)),
                     aweme_id |-> StrOrEmpty(aweme_id),
                     cid |-> StrOrEmpty(cid),
                     comment_language |-> StrOrEmpty(lang),
                     create_time |-> ct,
                     digg_count |-> dc,
                     reply_comment_total |-> rc,
                     text |-> text,
                     user |-> user_block,
                     share_info |-> PyDict([url |->
                         OrElse(share_url,
                                build_share_url_fallback(aweme_id, cid, url))])])

----------------------------------------------------------------------------
(* extractors/utils.py: is_comment_like, as the specification (4.4) gives it *)

TEXT_OR_ID_KEYS == <<"text", "comment", "content", "cid", "comment_id", "id">>

is_comment_like(raw) ==
    /\ IsDict(raw)
    /\ \E i \in 1..Len(TEXT_OR_ID_KEYS) :
          /\ TEXT_OR_ID_KEYS[i] \in DOMAIN raw.v
          /\ Truthy(raw.v[TEXT_OR_ID_KEYS[i]])

----------------------------------------------------------------------------
(* The inputs: what an untyped JSON payload can hold at each key *)

MaxKeys == 2        \* keys of a raw comment mapping
MaxUserKeys == 2    \* keys of a raw user mapping given to the user functions

Str1(a) == PyStr(<<a>>)
Str2(a, b) == PyStr(<<a, b>>)
Str3(a, b, c) == PyStr(<<a, b, c>>)

\* values of any type that every key may hold
ScalarVals ==
    { PyNone, PyBool(FALSE), PyInt(0), PyInt(5), EmptyStr, Str2("1", "2") }

\* further values at the keys of a number: create_time, digg_count, ...
NumericVals ==
    ScalarVals \cup
    { PyBool(TRUE), PyInt(-5), PyFloat(<<"2", ".", "5">>),
      Str2("1", "a"), Str1("sup2"), EmptyList }

\* further values at the keys of a string: ids, language, text, names, avatar
StringVals ==
    ScalarVals \cup
    { PyBool(TRUE), Str1(" "), Str3(" ", "a", " "), PyList(<<Str1("a")>>) }

\* values at the keys of a flag: author_pin, isPinned, pinned
FlagVals == ScalarVals \cup { PyBool(TRUE) }

\* what may sit at url_list / urlList
UrlListVals ==
    { PyNone, EmptyList,
      PyList(<<EmptyStr>>), PyList(<<Str1(" ")>>), PyList(<<PyInt(5)>>),
      PyList(<<Str1("u")>>), PyList(<<Str3(" ", "u", " ")>>),
      PyList(<<Str1("u"), Str1("v")>>), PyList(<<Str1("v"), Str1("u")>>),
      PyList(<<Str1(" "), PyInt(5), Str2("u", " ")>>),
      Str2("a", " "), PyInt(5), PyBool(TRUE) }

ThumbVals(inner, other) ==
    { PyNone, Str1("a"), PyInt(5), EmptyList, EmptyDict,
      PyDict(other :> PyList(<<Str1("w")>>)) }
    \cup { PyDict(inner :> l) : l \in UrlListVals }

AVATAR_KEYS == {"avatar_thumb", "avatarThumb", "avatar", "avatarUrl"}
Range(seq) == { seq[i] : i \in 1..Len(seq) }
UserKeySet == Range(NICKNAME_KEYS) \cup Range(UNIQUE_ID_KEYS) \cup AVATAR_KEYS

UserValsFor(k) ==
    CASE k = "avatar_thumb" -> ThumbVals("url_list", "urlList")
      [] k = "avatarThumb" -> ThumbVals("urlList", "url_list")
      [] OTHER -> StringVals

\* values that are no mapping
NonDictVals == StringVals \cup { EmptyList }

\* raw users nested in a raw comment
NestedUsers ==
    { EmptyDict,
      PyDict([nickname |-> Str1("n")]),
      PyDict([nickname |-> Str1(" "), uniqueId |-> PyInt(5)]),
      PyDict([nicknameName |-> Str1("m"), displayName |-> Str1("d"),
              username |-> Str1("e"), uid |-> Str1("f")]),
      PyDict([avatar |-> Str3(" ", "u", " ")]),
      PyDict([avatar_thumb |-> PyDict([url_list |-> PyList(<<Str3(" ", "u", " "), Str1(" ")>>)])]),
      PyDict([avatar_thumb |-> PyDict([url_list |-> PyList(<<Str1(" ")>>)]),
              avatarThumb |-> PyDict([urlList |-> PyList(<<Str1("v"), Str1("u")>>)])]),
      PyDict([avatar_thumb |-> PyDict([url_list |-> Str2("a", " ")])]),
      PyDict([avatar_thumb |-> PyDict([url_list |-> PyInt(5)])]),
      PyDict([avatar_thumb |-> PyNone, avatarUrl |-> Str1("u")]) }

ShareInfoVals ==
    NonDictVals \cup { EmptyDict }
    \cup { PyDict([url |-> u]) : u \in { PyNone, EmptyStr, PyInt(5), Str1("x") } }

RawKeySet ==
    Range(AUTHOR_PIN_KEYS) \cup Range(AWEME_ID_KEYS) \cup Range(CID_KEYS)
    \cup Range(LANG_KEYS) \cup Range(CREATE_TIME_KEYS) \cup Range(DIGG_KEYS)
    \cup Range(REPLIES_KEYS) \cup Range(TEXT_KEYS) \cup Range(USER_KEYS)
    \cup {"share_info"}

RawValsFor(k) ==
    CASE k \in Range(USER_KEYS) -> NonDictVals \cup NestedUsers
      [] k = "share_info" -> ShareInfoVals
      [] k \in Range(AUTHOR_PIN_KEYS) -> FlagVals
      [] k \in Range(CREATE_TIME_KEYS) \cup Range(DIGG_KEYS) \cup Range(REPLIES_KEYS)
            -> NumericVals
      [] OTHER -> StringVals

\* the functions under call, and the keys and values of their mappings
UserFunctions == {"normalize_avatar_urls", "build_user_block"}
KeysOf(f) == IF f \in UserFunctions THEN UserKeySet ELSE RawKeySet
ValsFor(f, k) == IF f \in UserFunctions THEN UserValsFor(k) ELSE RawValsFor(k)
MaxKeysOf(f) == IF f \in UserFunctions THEN MaxUserKeys ELSE MaxKeys

SourceUrls == { PyNone, Str1("https://tiktok.com/x") }

----------------------------------------------------------------------------
(* The pure functions, each called on an input and then on its own result *)

MainIdle ==
    /\ start_urls = <<>>
    /\ url_idx = 0
    /\ comments = <<>>
    /\ idx = 0
    /\ valid_records = <<>>
    /\ exported = <<>>
    /\ failed = {}
    /\ total_written = 0
    /\ max_items = 0
    /\ url_aweme_id = PyNone
    /\ attempt = 1
    /\ attempted = <<>>
    /\ live = PyNone

\* the argument starts as a value that is no mapping, or as the empty mapping
Init ==
    /\ pc = "input"
    /\ fn \in UserFunctions \cup {"format_comment_record"}
    /\ arg \in NonDictVals \cup { EmptyDict }
    /\ source_url = PyNone
    /\ result = PyNone
    /\ result2 = PyNone
    /\ MainIdle

mainVars == <<start_urls, url_idx, comments, idx, valid_records, exported,
              failed, total_written, max_items, url_aweme_id, attempt, attempted,
              live>>

\* the upstream payload holds one more key
PutKey ==
    /\ pc = "input" /\ IsDict(arg)
    /\ Cardinality(DOMAIN arg.v) < MaxKeysOf(fn)
    /\ \E k \in KeysOf(fn) \ DOMAIN arg.v :
          \E a \in ValsFor(fn, k) : arg' = PyDict((k :> a) @@ arg.v)
    /\ UNCHANGED <<pc, fn, source_url, result, result2, mainVars>>

CallNormalizeAvatarUrls ==
    /\ pc = "input" /\ fn = "normalize_avatar_urls"
    /\ result' = normalize_avatar_urls(arg)
    /\ pc' = "returned"
    /\ UNCHANGED <<fn, arg, source_url, result2, mainVars>>

CallBuildUserBlock ==
    /\ pc = "input" /\ fn = "build_user_block"
    /\ result' = build_user_block(arg)
    /\ pc' = "returned"
    /\ UNCHANGED <<fn, arg, source_url, result2, mainVars>>

CallFormatCommentRecord ==
    /\ pc = "input" /\ fn = "format_comment_record"
    /\ \E u \in SourceUrls :
          /\ source_url' = u
          /\ result' = format_comment_record(arg, u)
    /\ pc' = "returned"
    /\ UNCHANGED <<fn, arg, result2, mainVars>>

\* the function's own result is fed back to it (with the same source URL)
CallAgain ==
    /\ pc = "returned" /\ ~IsRaised(result)
    /\ result2' = CASE fn = "normalize_avatar_urls" -> normalize_avatar_urls(result)
                    [] fn = "build_user_block" -> build_user_block(result)
                    [] OTHER -> format_comment_record(result, source_url)
    /\ pc' = "again"
    /\ UNCHANGED <<fn, arg, source_url, result, mainVars>>

Next ==
    \/ PutKey
    \/ CallNormalizeAvatarUrls
    \/ CallBuildUserBlock
    \/ CallFormatCommentRecord
    \/ CallAgain

Spec == Init /\ [][Next]_vars

----------------------------------------------------------------------------
(* extractors/comments_parser.py: CommentsClient, one strategy call at a   *)
(* time. What the network answers is an input: a response is               *)
(* [kind |-> how the request ended, data |-> the JSON value it carried].   *)

\* @retry(stop=stop_after_attempt(2), wait=wait_fixed(1))
STOP_AFTER_ATTEMPT == 2

\* xs[:n]
Slice(xs, n) ==
    IF n >= 0
    THEN SubSeq(xs, 1, IF n < Len(xs) THEN n ELSE Len(xs))
    ELSE SubSeq(xs, 1, IF Len(xs) + n > 0 THEN Len(xs) + n ELSE 0)

\* list(f.values())
RECURSIVE DictValues(_)
DictValues(f) ==
    IF DOMAIN f = {} THEN <<>>
    ELSE LET k == CHOOSE j \in DOMAIN f : TRUE
         IN  <<f[k]>> \o DictValues([j \in DOMAIN f \ {k} |-> f[j]])

\* x.get(k, dflt) for any x: AttributeError when x is no dict; an x that is
\* itself a raise is passed on
GetOrRaise(x, k, dflt) ==
    IF IsRaised(x) THEN x
    ELSE IF IsDict(x) THEN DictGetDefault(x, k, dflt)
    ELSE Raised("AttributeError")

\* data.get(outer, {}).get("comments", [])
CommentPath(data, outer) ==
    GetOrRaise(GetOrRaise(data, outer, EmptyDict), "comments", EmptyList)

\* the try block of _extract_comments_from_sigi: the first non-empty path,
\* [] when the lookup raises
SigiCommentDicts(data) ==
    LET a == CommentPath(data, "CommentItem")
        b == CommentPath(data, "Comments")
    IN  IF IsRaised(a) THEN EmptyList
        ELSE IF Truthy(a) THEN a
        ELSE IF IsRaised(b) THEN EmptyList
        ELSE OrElse(b, EmptyList)

\* _extract_comments_from_sigi(data): the dict items of what the path
\* holds; iterating a string gives characters (no dicts), iterating a
\* number or a bool raises TypeError
extract_comments_from_sigi(data) ==
    LET comment_dicts == SigiCommentDicts(data)
        listed == IF IsDict(comment_dicts)
                  THEN PyList(DictValues(comment_dicts.v))
                  ELSE comment_dicts
        iterated == OrElse(listed, EmptyList)
    IN  CASE iterated.t = "list" -> PyList(SelectSeq(iterated.v, IsDict))
          [] iterated.t = "str" -> EmptyList
          [] OTHER -> Raised("TypeError")

\* one attempt of _try_mobile_page
try_mobile_page(resp, n) ==
    CASE resp.kind \in {"connect_error", "http_error"} -> Raised(resp.kind)
      [] resp.kind \in {"no_sigi_state", "bad_json"} -> EmptyList
      [] OTHER ->
            LET found == extract_comments_from_sigi(resp.data)
            IN  IF IsRaised(found) THEN found
                ELSE PyList(Slice(found.v, n))

\* one attempt of _probe_oembed
probe_oembed(resp) ==
    CASE resp.kind \in {"connect_error", "http_error"} -> Raised(resp.kind)
      [] resp.kind = "status_404" -> PyBool(FALSE)
      [] OTHER -> PyBool(TRUE)

\* one attempt of _try_public_api_like: a failed request gives [], the
\* shape test of the body stands outside that try block
try_public_api_like(resp) ==
    IF resp.kind \in {"connect_error", "status_not_200", "bad_json"}
    THEN EmptyList
    ELSE IF ~IsDict(resp.data) THEN EmptyList
    ELSE IF DictGet(resp.data, "comments").t = "list"
    THEN OrElse(DictGet(resp.data, "comments"), EmptyList)
    ELSE LET nested == GetOrRaise(DictGetDefault(resp.data, "data", EmptyDict),
                                  "comments", PyNone)
         IN  IF IsRaised(nested) THEN nested
             ELSE IF nested.t = "list" THEN OrElse(nested, EmptyList)
             ELSE EmptyList

\* what the decorated method gives once its attempts are used up
AfterRetry(out) == IF IsRaised(out) THEN Raised("RetryError") ELSE out

\* if records:
Yields(out) == ~IsRaised(out) /\ Truthy(out)

\* a fetch that asks the API whatever the URL gave
ApiRegardless(strategy, id) ==
    CASE strategy = "mobile" -> "oembed"
      [] strategy = "oembed" -> "api"
      [] OTHER -> "fetched"

\* where fetch_comments goes after a strategy that gave nothing: the API is
\* asked only if aweme_id:
NextStrategy(strategy, id) ==
    CASE strategy = "mobile" -> "oembed"
      [] strategy = "oembed" -> IF Truthy(id) THEN "api" ELSE "fetched"
      [] OTHER -> "fetched"

----------------------------------------------------------------------------
(* main.py: the per-URL processing loop of main *)

MaxUrls == 2       \* video URLs of a run
MaxComments == 2   \* raw items a URL yields

VideoUrls == { Str1("https://tiktok.com/x"), Str1("https://tiktok.com/y") }

\* raw items as a fetch or the sample file yields them
CommentItems ==
    { Str1("a"), EmptyDict,
      PyDict([text |-> EmptyStr]),
      PyDict([text |-> Str2("h", "i")]),
      PyDict([id |-> Str1("5")]),
      PyDict([cid |-> PyInt(5), aweme_id |-> Str2("1", "2"),
              user |-> PyDict([nickname |-> Str1("n")])]),
      PyDict([text |-> Str2("y", "o"), user |-> Str1("b")]) }

CommentLists ==
    UNION { [1..n -> CommentItems] : n \in 0..MaxComments }

\* lists of video URLs without a repetition, as iter_unique leaves them
UniqueUrlLists ==
    { us \in UNION { [1..n -> VideoUrls] : n \in 1..MaxUrls } :
        \A i, j \in 1..Len(us) : us[i] = us[j] => i = j }

pureVars == <<fn, arg, result, result2>>

MaxItems == 2      \* the largest max_items of a run

\* what parse_aweme_id_from_url(url) -> str hands back: the empty string
\* when the URL carries no id
AwemeIds == { EmptyStr, Str1("7") }

Response(kind, data) == [kind |-> kind, data |-> data]

\* what a "comments" entry of a page or of an API body can hold
CommentsVals ==
    { PyList(l) : l \in CommentLists }
        \cup { PyDict([c1 |-> c]) : c \in CommentItems }
        \cup { PyNone, PyInt(5), PyBool(TRUE), Str2("h", "i") }

\* the JSON of a page's SIGI_STATE script
SigiDataVals ==
    { EmptyDict, PyList(<<EmptyDict>>), PyDict([CommentItem |-> Str1("a")]) }
        \cup { PyDict([CommentItem |-> PyDict([comments |-> c])]) :
                  c \in CommentsVals }
        \cup { PyDict([Comments |-> PyDict([comments |-> c])]) :
                  c \in CommentsVals }
        \cup { PyDict([CommentItem |-> PyDict([comments |-> EmptyList]),
                       Comments |-> PyDict([comments |-> c])]) :
                  c \in CommentsVals }
        \cup { PyDict([CommentItem |-> PyInt(5),
                       Comments |-> PyDict([comments |-> c])]) :
                  c \in CommentsVals }

MobileResponses ==
    { Response(k, PyNone) :
        k \in {"connect_error", "http_error", "no_sigi_state", "bad_json"} }
        \cup { Response("json", d) : d \in SigiDataVals }

OembedResponses ==
    { Response(k, PyNone) :
        k \in {"connect_error", "http_error", "status_404", "ok"} }

\* the JSON body of the comment list endpoint
ApiDataVals ==
    { EmptyDict, PyList(<<EmptyDict>>), PyDict([data |-> PyNone]),
      PyDict([data |-> Str1("a")]), PyDict([data |-> EmptyDict]) }
        \cup { PyDict([comments |-> c]) : c \in CommentsVals }
        \cup { PyDict([data |-> PyDict([comments |-> c])]) :
                  c \in CommentsVals }
        \cup { PyDict([comments |-> c, data |-> PyNone]) : c \in CommentsVals }
        \cup { PyDict([comments |-> PyNone,
                       data |-> PyDict([comments |-> c])]) :
                  c \in CommentsVals }

ApiResponses ==
    { Response(k, PyNone) :
        k \in {"connect_error", "status_not_200", "bad_json"} }
        \cup { Response("json", d) : d \in ApiDataVals }

\* what stays as it is while fetch_comments runs
callerVars == <<start_urls, url_idx, source_url, comments, idx, valid_records,
                exported, failed, total_written, max_items, url_aweme_id,
                pureVars>>

fetchVars == <<url_aweme_id, attempt, attempted, live>>

\* the try block around a strategy once the decorated method has returned or
\* raised for good: a non-empty list is returned cut to max_items, anything
\* else (an exception too) goes on to the next strategy, return [] after the
\* last one
EndStrategy(strategy, out) ==
    /\ attempted' = Append(attempted, [strategy |-> strategy, out |-> out])
    /\ attempt' = 1
    /\ IF strategy # "oembed" /\ Yields(out)
       THEN /\ live' = PyList(Slice(out.v, max_items))
            /\ pc' = "fetched"
       ELSE /\ pc' = NextStrategy(strategy, url_aweme_id)
            /\ live' = IF NextStrategy(strategy, url_aweme_id) = "fetched"
                       THEN EmptyList
                       ELSE live

\* one attempt of a decorated method: an exception is retried until
\* stop_after_attempt, then it is RetryError
RunStrategy(strategy, out) ==
    IF IsRaised(out) /\ attempt < STOP_AFTER_ATTEMPT
    THEN /\ attempt' = attempt + 1
         /\ UNCHANGED <<pc, attempted, live>>
    ELSE EndStrategy(strategy, AfterRetry(out))

\* Strategy 1
TryMobilePage ==
    /\ pc = "mobile"
    /\ \E resp \in MobileResponses :
          RunStrategy("mobile", try_mobile_page(resp, max_items))
    /\ UNCHANGED callerVars

\* Strategy 2
ProbeOembed ==
    /\ pc = "oembed"
    /\ \E resp \in OembedResponses :
          RunStrategy("oembed", probe_oembed(resp))
    /\ UNCHANGED callerVars

\* Strategy 3
TryPublicApiLike ==
    /\ pc = "api"
    /\ \E resp \in ApiResponses :
          RunStrategy("api", try_public_api_like(resp))
    /\ UNCHANGED callerVars

\* fetch_comments(url, max_items) has been called: aweme_id is parsed and
\* Strategy 1 is about to run
FetchInit ==
    /\ pc = "mobile"
    /\ fn = "fetch_comments" /\ arg = PyNone
    /\ result = PyNone /\ result2 = PyNone
    /\ source_url \in VideoUrls
    /\ max_items \in 0..MaxItems
    /\ url_aweme_id \in AwemeIds
    /\ attempt = 1
    /\ attempted = <<>>
    /\ live = PyNone
    /\ start_urls = <<>>
    /\ url_idx = 0
    /\ comments = <<>>
    /\ idx = 0
    /\ valid_records = <<>>
    /\ exported = <<>>
    /\ failed = {}
    /\ total_written = 0

FetchNext ==
    \/ TryMobilePage
    \/ ProbeOembed
    \/ TryPublicApiLike

SpecFetch == FetchInit /\ [][FetchNext]_vars

\* after start_urls = list(iter_unique(...)), max_items = ... and the
\* construction of the exporter and the client
MainInit ==
    /\ pc = "for"
    /\ start_urls \in UniqueUrlLists
    /\ max_items \in 0..MaxItems
    /\ url_idx = 0
    /\ source_url = PyNone
    /\ comments = <<>>
    /\ idx = 0
    /\ valid_records = <<>>
    /\ exported = <<>>
    /\ failed = {}
    /\ total_written = 0
    /\ url_aweme_id = PyNone
    /\ attempt = 1
    /\ attempted = <<>>
    /\ live = PyNone
    /\ fn = "main" /\ arg = PyNone /\ result = PyNone /\ result2 = PyNone

\* for url in start_urls: client.fetch_comments(url=url, max_items=max_items)
\* is entered
FetchComments ==
    /\ pc = "for" /\ url_idx < Len(start_urls)
    /\ url_idx' = url_idx + 1
    /\ source_url' = start_urls[url_idx + 1]
    /\ url_aweme_id' \in AwemeIds
    /\ attempt' = 1
    /\ attempted' = <<>>
    /\ live' = PyNone
    /\ pc' = "mobile"
    /\ UNCHANGED <<start_urls, comments, idx, valid_records, exported, failed,
                   total_written, max_items, pureVars>>

\* comments = what the fetch returned; if not comments and url in
\* sample_comments_by_url: comments = sample_comments_by_url[url]
\* (sample is None when the URL has no entry)
SampleFallback ==
    /\ pc = "fetched"
    /\ \E sample \in {PyNone} \cup { PyList(l) : l \in CommentLists } :
          comments' = IF ~Truthy(live) /\ sample # PyNone
                      THEN sample.v
                      ELSE live.v
    /\ idx' = 0
    /\ valid_records' = <<>>
    /\ url_aweme_id' = PyNone
    /\ attempt' = 1
    /\ attempted' = <<>>
    /\ live' = PyNone
    /\ pc' = "comprehension"
    /\ UNCHANGED <<start_urls, url_idx, source_url, exported, failed,
                   total_written, max_items, pureVars>>

\* [format_comment_record(c, url) for c in comments if is_comment_like(c)],
\* one item: dropped, normalized and appended, or the normalizer raises
ComprehensionStep ==
    /\ pc = "comprehension" /\ idx < Len(comments)
    /\ LET c == comments[idx + 1]
           r == format_comment_record(c, source_url)
       IN  IF ~is_comment_like(c)
           THEN /\ valid_records' = valid_records
                /\ pc' = pc
           ELSE IF IsRaised(r)
           THEN /\ valid_records' = valid_records
                /\ pc' = "except"
           ELSE /\ valid_records' = Append(valid_records, r)
                /\ pc' = pc
    /\ idx' = idx + 1
    /\ UNCHANGED <<start_urls, url_idx, source_url, comments, exported, failed,
                   total_written, max_items, fetchVars, pureVars>>

\* exporter.write_many(valid_records); total_written += len(valid_records)
WriteMany ==
    /\ pc = "comprehension" /\ idx = Len(comments)
    /\ exported' = Append(exported, valid_records)
    /\ total_written' = total_written + Len(valid_records)
    /\ pc' = "for"
    /\ UNCHANGED <<start_urls, url_idx, source_url, comments, idx,
                   valid_records, failed, max_items, fetchVars, pureVars>>

\* except Exception: the URL is logged as failed, nothing is handed over
ExceptUrl ==
    /\ pc = "except"
    /\ exported' = Append(exported, <<>>)
    /\ failed' = failed \cup {url_idx}
    /\ pc' = "for"
    /\ UNCHANGED <<start_urls, url_idx, source_url, comments, idx,
                   valid_records, total_written, max_items, fetchVars,
                   pureVars>>

\* exporter.close()
CloseExporter ==
    /\ pc = "for" /\ url_idx = Len(start_urls)
    /\ pc' = "done"
    /\ UNCHANGED <<start_urls, url_idx, source_url, comments, idx,
                   valid_records, exported, failed, total_written, max_items,
                   fetchVars, pureVars>>

MainNext ==
    \/ FetchComments
    \/ TryMobilePage
    \/ ProbeOembed
    \/ TryPublicApiLike
    \/ SampleFallback
    \/ ComprehensionStep
    \/ WriteMany
    \/ ExceptUrl
    \/ CloseExporter

SpecMain == MainInit /\ [][MainNext]_vars

----------------------------------------------------------------------------
(* Vocabulary of the claims *)

Called(f) == pc \in {"returned", "again"} /\ fn = f

\* the value at the first of the keys that is present, dflt when none is
RECURSIVE FirstPresent(_, _, _)
FirstPresent(d, keys, dflt) ==
    IF keys = <<>> THEN dflt
    ELSE IF Head(keys) \in DOMAIN d.v THEN d.v[Head(keys)]
    ELSE FirstPresent(d, Tail(keys), dflt)

\* the positions of the candidate keys that hold a non-empty value
NonEmptyAt(d, keys) ==
    { i \in 1..Len(keys) : keys[i] \in DOMAIN d.v /\ Truthy(d.v[keys[i]]) }

Earliest(S) == CHOOSE i \in S : \A j \in S : i <= j

CanonicalFields ==
    { "author_pin", "aweme_id", "cid", "comment_language", "create_time",
      "digg_count", "reply_comment_total", "text", "user", "share_info" }

DefaultUserBlock ==
    PyDict([nickname |-> EmptyStr, unique_id |-> EmptyStr,
            avatar_thumb |-> PyDict([url_list |-> EmptyList])])

\* the avatar URL list of what a user function returned
UrlsOf(f, r) == IF f = "build_user_block" THEN r.v.avatar_thumb.v.url_list ELSE r

IsDecimalStr(x) ==
    IsStr(x) /\ x.v # <<>> /\ \A i \in 1..Len(x.v) : x.v[i] \in DecimalDigits

----------------------------------------------------------------------------
(* C1: format_comment_record is total: for every raw input, a mapping or    *)
(* not, and every source URL it returns a record that holds all ten         *)
(* canonical fields, none of them null, and it never raises.                *)
C1_Totality ==
    Called("format_comment_record") =>
        /\ IsDict(result)
        /\ DOMAIN result.v = CanonicalFields
        /\ \A k \in CanonicalFields : result.v[k] # PyNone
        /\ IsDict(result.v.share_info)
        /\ "url" \in DOMAIN result.v.share_info.v
        /\ result.v.share_info.v.url # PyNone

\* a numeric field is the coercion of the value at the first present key
\* (a key that holds null is left to either reading)
NumericFirstPresent(keys, out) ==
    LET first == FirstPresent(arg, keys, PyNone)
    IN  first # PyNone => out = CoerceInt(first)

(* C2: the numeric and boolean fields take the value of the first candidate *)
(* key that is present, a literal 0 or false included, and coerce only that *)
(* value: a later candidate is never consulted when an earlier is present.  *)
C2_FirstPresentKeyWins ==
    (Called("format_comment_record") /\ IsDict(result)) =>
        /\ NumericFirstPresent(CREATE_TIME_KEYS, result.v.create_time)
        /\ NumericFirstPresent(DIGG_KEYS, result.v.digg_count)
        /\ NumericFirstPresent(REPLIES_KEYS, result.v.reply_comment_total)
        /\ LET first == FirstPresent(arg, AUTHOR_PIN_KEYS, PyNone)
           IN  first # PyNone => result.v.author_pin = PyBool(Truthy(first))

\* the value at user[outer][inner], null when the path does not exist
NestedAt(user, outer, inner) ==
    IF IsDict(user) /\ outer \in DOMAIN user.v /\ IsDict(user.v[outer])
    THEN DictGet(user.v[outer], inner) ELSE PyNone

\* the strings of a candidate list that are non-empty once trimmed
KeptOf(c) == IF c.t = "list" THEN SelectSeq(c.v, KeepUrl) ELSE <<>>

(* C3: the avatar candidates are tried in the order avatar_thumb.url_list,  *)
(* avatarThumb.urlList, single string; a candidate is accepted only if it   *)
(* is non-empty after filtering to the strings that are non-empty once      *)
(* trimmed, otherwise the next is tried; [] only when every candidate fails.*)
C3_AvatarFallthrough ==
    LET snake == NestedAt(arg, "avatar_thumb", "url_list")
        camel == NestedAt(arg, "avatarThumb", "urlList")
    IN  (/\ pc # "input" /\ fn \in UserFunctions /\ IsDict(arg)
         /\ snake.t \in {"none", "list"} /\ camel.t \in {"none", "list"}) =>
            /\ ~IsRaised(result)
            /\ UrlsOf(fn, result) =
                  IF KeptOf(snake) # <<>> THEN PyList(KeptOf(snake))
                  ELSE IF KeptOf(camel) # <<>> THEN PyList(KeptOf(camel))
                  ELSE DirectAvatar(arg)

RECURSIVE IsSubSeq(_, _)
IsSubSeq(a, b) ==
    IF a = <<>> THEN TRUE
    ELSE IF b = <<>> THEN FALSE
    ELSE IF Head(a) = Head(b) THEN IsSubSeq(Tail(a), Tail(b))
    ELSE IsSubSeq(a, Tail(b))

\* the elements a platform-provided avatar value holds, in its order
ElementsOf(c) ==
    CASE c.t = "list" -> c.v
      [] c.t = "str" -> [i \in 1..Len(c.v) |-> PyStr(<<c.v[i]>>)]
      [] OTHER -> <<>>

TrimmedSeq(xs) ==
    [i \in 1..Len(xs) |-> IF IsStr(xs[i]) THEN PyStr(Strip(xs[i].v)) ELSE xs[i]]

AvatarSources(user) ==
    IF ~IsDict(user) THEN {}
    ELSE { NestedAt(user, "avatar_thumb", "url_list"),
           NestedAt(user, "avatarThumb", "urlList"),
           PyList(<<DictGet(user, "avatar")>>),
           PyList(<<DictGet(user, "avatarUrl")>>) }

\* the returned URLs are, up to trimming, elements of one platform-provided
\* avatar value, in the order they have there
C4_OrderKept ==
    (pc # "input" /\ fn \in UserFunctions /\ ~IsRaised(result)) =>
        LET urls == UrlsOf(fn, result).v
        IN  \/ urls = <<>>
            \/ \E c \in AvatarSources(arg) :
                  IsSubSeq(TrimmedSeq(urls), TrimmedSeq(ElementsOf(c)))

(* C4: every element of the avatar URL list that normalize_avatar_urls and  *)
(* build_user_block return is a string, non-empty and already trimmed,      *)
(* whichever shape it came from, and the elements keep the platform order.  *)
C4_UrlsAreTrimmed ==
    /\ C4_OrderKept
    /\ (pc # "input" /\ fn \in UserFunctions /\ ~IsRaised(result)) =>
        LET urls == UrlsOf(fn, result).v
        IN  \A i \in 1..Len(urls) :
                /\ IsStr(urls[i])
                /\ urls[i].v # <<>>
                /\ Strip(urls[i].v) = urls[i].v

\* what the claim says of one numeric field, given the raw value selected
NumericFieldOk(sel, out) ==
    /\ out.t = "int" /\ out.v >= 0
    /\ IsDecimalStr(sel) => out.v = DecimalValue(sel.v)
    /\ (\/ sel.t = "none"
        \/ sel.t = "float"
        \/ (sel.t = "int" /\ sel.v < 0)
        \/ (IsStr(sel) /\ \E i \in 1..Len(sel.v) : sel.v[i] \notin IsDigitChars))
          => out.v = 0

(* C5: create_time, digg_count and reply_comment_total are non-negative     *)
(* integers: the numeric value of a selected all-digit string, 0 for an     *)
(* absent value, a string with a non-digit, a negative number or a float;   *)
(* and the coercion never raises.                                           *)
C5_NumericCoercion ==
    (Called("format_comment_record") /\ IsDict(arg)) =>
        /\ result # Raised("ValueError")
        /\ IsDict(result) =>
            /\ NumericFieldOk(FirstTruthy(arg, CREATE_TIME_KEYS, PyNone),
                              result.v.create_time)
            /\ NumericFieldOk(FirstTruthy(arg, DIGG_KEYS, PyNone),
                              result.v.digg_count)
            /\ NumericFieldOk(FirstTruthy(arg, REPLIES_KEYS, PyNone),
                              result.v.reply_comment_total)

(* C6: build_user_block given a value that is no mapping returns the        *)
(* default user block (empty nickname, unique_id and avatar list) without   *)
(* raising; so does format_comment_record for the user field of a raw       *)
(* comment whose user or author value is no mapping.                        *)
C6_NonMappingUserDefault ==
    /\ (Called("build_user_block") /\ ~IsDict(arg)) => result = DefaultUserBlock
    /\ (/\ Called("format_comment_record") /\ IsDict(arg)
        /\ DOMAIN arg.v \subseteq Range(USER_KEYS) /\ DOMAIN arg.v # {}
        /\ \A k \in DOMAIN arg.v : ~IsDict(arg.v[k]))
          => (IsDict(result) /\ result.v.user = DefaultUserBlock)

\* the normalizations of the items that pass the filter, in order
NormalizedValid(items, url) ==
    LET valid == SelectSeq(items, is_comment_like)
    IN  [i \in 1..Len(valid) |-> format_comment_record(valid[i], url)]

(* C7: in the per-URL loop of main the records handed to the exporter for a *)
(* URL are exactly the normalizations, one per item and in order, of the    *)
(* raw items for which is_comment_like is true; an item that fails the      *)
(* filter is dropped without raising and does not stop the remaining items. *)
C7_ExportedAreValidNormalized ==
    (pc = "for" /\ url_idx > 0) =>
        /\ Len(exported) = url_idx
        /\ exported[url_idx] = NormalizedValid(comments, source_url)

----------------------------------------------------------------------------
(* C8: the share URL of a produced record is raw.share_info.url verbatim    *)
(* when share_info is a mapping with a non-empty url; otherwise the deep    *)
(* link built from the resolved aweme_id and comment id when both are       *)
(* non-empty; otherwise the source URL, or "" when that is absent.          *)
C8_ShareUrl ==
    (Called("format_comment_record") /\ IsDict(result)) =>
        LET share_info == DictGet(arg, "share_info")
            given == IF IsDict(share_info) THEN DictGet(share_info, "url")
                     ELSE PyNone
            aweme == result.v.aweme_id.v
            comment == result.v.cid.v
            url == result.v.share_info.v.url
        IN  IF Truthy(given) THEN url = given
            ELSE IF aweme # <<>> /\ comment # <<>>
                 THEN url = PyStr(<<"https://m.tiktok.com/v/">> \o aweme
                                  \o <<".html?share_comment_id=">> \o comment)
            ELSE IF source_url = PyNone THEN url = EmptyStr
            ELSE url = source_url

\* raw {aweme_id, cid}, no share_info: the deep link wins over the source URL
C8_Witness ==
    /\ Called("format_comment_record") /\ IsDict(arg)
    /\ DOMAIN arg.v = {"aweme_id", "cid"}
    /\ Truthy(source_url)
    /\ IsDict(result)
    /\ result.v.share_info.v.url
         = PyStr(<<"https://m.tiktok.com/v/", "1", "2",
                   ".html?share_comment_id=", "5">>)

\* what the claim says of one string field: the earliest non-empty
\* candidate decides; its value is put out as it is, or as str(value) when
\* stringified; "" when there is none
StringFieldOk(d, keys, out, stringified) ==
    LET S == NonEmptyAt(d, keys)
        value == d.v[keys[Earliest(S)]]
    IN  IF S = {} THEN out = EmptyStr
        ELSE IF stringified THEN out = PyStr(StrOf(value))
        ELSE out = value

StringFieldsOk(stringified) ==
    /\ (Called("format_comment_record") /\ IsDict(result)) =>
        /\ StringFieldOk(arg, AWEME_ID_KEYS, result.v.aweme_id, stringified)
        /\ StringFieldOk(arg, CID_KEYS, result.v.cid, stringified)
        /\ StringFieldOk(arg, LANG_KEYS, result.v.comment_language, stringified)
        /\ StringFieldOk(arg, TEXT_KEYS, result.v.text, FALSE)
    /\ (Called("build_user_block") /\ IsDict(result)) =>
        /\ StringFieldOk(arg, NICKNAME_KEYS, result.v.nickname, FALSE)
        /\ StringFieldOk(arg, UNIQUE_ID_KEYS, result.v.unique_id, FALSE)

(* C9 as stated: each string field (aweme_id, comment id, language, text,   *)
(* nickname, unique_id) equals the value of the earliest candidate key that *)
(* holds a non-empty value, and is "" only when no candidate holds one.     *)
C9_EarliestValueVerbatim == StringFieldsOk(FALSE)

(* C9 as amended: the earliest candidate key that holds a non-empty value   *)
(* decides each string field; aweme_id, comment id and language put out     *)
(* str() of that value (the value itself when it is a string), text,        *)
(* nickname and unique_id the value as it is; "" only when none holds one.  *)
C9_EarliestCandidateWins == StringFieldsOk(TRUE)

\* aweme_id and awemeId hold different non-empty values: aweme_id wins
C9_Witness ==
    /\ Called("format_comment_record") /\ IsDict(arg) /\ IsDict(result)
    /\ DOMAIN arg.v = {"aweme_id", "awemeId"}
    /\ Truthy(arg.v.aweme_id) /\ Truthy(arg.v.awemeId)
    /\ arg.v.aweme_id # arg.v.awemeId
    /\ result.v.aweme_id = arg.v.aweme_id

(* C10: normalization is idempotent on canonical records: feeding the       *)
(* record format_comment_record(r, u) back with the same u yields a record  *)
(* equal to it in every field, the user block, the avatar list and          *)
(* share_info.url included.                                                 *)
C10_Idempotent ==
    (pc = "again" /\ fn = "format_comment_record") => result2 = result

\* a record with a user name, avatar URLs and a share URL was fed back
C10_Witness ==
    /\ pc = "again" /\ fn = "format_comment_record"
    /\ result2 = result
    /\ result.v.user.v.avatar_thumb.v.url_list.v # <<>>
    /\ result.v.user.v.nickname = EmptyStr
    /\ result.v.share_info.v.url = source_url
    /\ Truthy(source_url)

----------------------------------------------------------------------------
(* C11: for every video URL main has processed, the number of records       *)
(* handed to the exporter for that URL is at most max_items, whether the     *)
(* comments came from the mobile page, from the API or from the sample       *)
(* comments used when the live fetch returned nothing.                       *)
C11_AtMostMaxItems ==
    \A i \in 1..Len(exported) : Len(exported[i]) <= max_items

\* the part of it that the code keeps: what fetch_comments returns is capped
C11_LiveFetchIsCapped ==
    pc = "fetched" => Len(live.v) <= max_items

----------------------------------------------------------------------------
\* the order the strategies are to be attempted in
StrategyOrder == <<"mobile", "oembed", "api">>

InFetch == pc \in {"mobile", "oembed", "api", "fetched"}

\* the strategies run so far that yielded a non-empty list of comments
YieldingAt ==
    { i \in 1..Len(attempted) :
        attempted[i].strategy # "oembed" /\ Yields(attempted[i].out) }

====
